---- MODULE Spec2Model ----
(***************************************************************************)
(* Model of the Maker keeper scripts: the window arithmetic                *)
(* (calculateNextMasterWindow), the watched variables kept fresh by the    *)
(* sequencer's events, the run() scheduling cycle and tryToWorkJob with    *)
(* its jobWorkInProgress guard.  Two scripts share the arithmetic and the  *)
(* watched variables: the Flashbots script (specification Spec) and the    *)
(* PrivateBroadcastor script (specification SpecPB).  SpecMath applies the *)
(* window arithmetic alone to bounded inputs.                              *)
(***************************************************************************)
EXTENDS Integers, Sequences, FiniteSets, Bags, TLC

(***************************************************************************)
(* Bounds of the model.                                                    *)
(***************************************************************************)
\* highest block number the chain reaches
MaxBlock == 1
\* number of sequencer transactions (add/remove network, add/remove job)
MaxChainOps == 1
\* bounds of the inputs of the window arithmetic taken alone
MathMaxBlock == 160
MathMaxWindow == 13
MathMaxNetworks == 5

(***************************************************************************)
(* Program constants.                                                      *)
(***************************************************************************)
BLOCK_DURATION == 12000
TOLERANCE_THRESHOLD == 5 * BLOCK_DURATION
KEEP3R_NETWORK_TAG == "KEEP3R"

\* the value of a watched variable that was declared and never assigned
Undefined == -2
\* the result of arithmetic on a zero full window (x / 0 * 0)
NaN == -3

\* the other networks of the sequencer's whitelist, the jobs it can register,
\* and the window sizes a network can be added with
OtherTags == {"OTHER"}
Tags == {KEEP3R_NETWORK_TAG} \cup OtherTags
JobAddresses == {"jobA", "jobB"}
WindowSizes == {2}

(***************************************************************************)
(* WindowMath                                                              *)
(***************************************************************************)
\* faulty variants of the rounding: Math.floor, and "always the cycle after"
MathFloor(a, b) == a \div b
MathFloorPlusOne(a, b) == (a \div b) + 1

\* Math.ceil(a / b) for b > 0 (\div rounds towards minus infinity)
MathCeil(a, b) == 0 - ((0 - a) \div b)

\* faulty variant of the function: the first window that starts after the block
calculateWindowAfterBlock(blockNumber, blocksInWin, networksAmt, mainPosition) ==
    LET fullWindow == blocksInWin * networksAmt
        offset == mainPosition * blocksInWin
    IN  IF fullWindow = 0
        THEN NaN
        ELSE fullWindow * MathCeil(blockNumber + 1 - offset, fullWindow) + offset

calculateNextMasterWindow(blockNumber, blocksInWin, networksAmt, mainPosition) ==
    LET fullWindow == blocksInWin * networksAmt
        offset == mainPosition * blocksInWin
    IN  IF fullWindow = 0
        THEN NaN
        ELSE fullWindow * MathCeil(blockNumber - offset, fullWindow) + offset

\* number arithmetic and comparison with NaN: NaN is contagious, and every
\* comparison with NaN is false
Plus(a, b) == IF a = NaN \/ b = NaN THEN NaN ELSE a + b
Minus(a, b) == IF a = NaN \/ b = NaN THEN NaN ELSE a - b
Times(a, b) == IF a = NaN \/ b = NaN THEN NaN ELSE a * b
LessThan(a, b) == a # NaN /\ b # NaN /\ a < b
AtLeast(a, b) == a # NaN /\ b # NaN /\ a >= b

(***************************************************************************)
(* State                                                                   *)
(***************************************************************************)
VARIABLES
    \* the sequencer contract and the chain
    chainBlock,              \* number of the latest block
    chainNetworks,           \* whitelist: sequence of [tag, windowSize]
    chainJobs,               \* registered jobs: sequence of addresses
    chainOps,                \* sequencer transactions so far
    \* the provider's event transport
    events,                  \* logs not yet delivered, in order
    listeners,               \* registered provider.on handlers
    \* watched variables of the script
    blocksInWindow,
    networksAmount,
    keep3rSequencerPosition,
    jobs,
    jobWorkInProgress,
    \* running fetchAndUpdateNetworksData invocations
    fetches,
    \* run(): position, locals and closure
    pc,
    jobFetch,                \* locals of fetchJobsAndSubscribeToChanges
    windowStart,
    windowEnd,
    time,
    lastDelivered,           \* last block the block listener handed over
    blockSubscriptions,      \* subscriptions of the block listener not cancelled
    \* running job attempts
    attempts,
    \* the latest lines of tryToWorkJob on the console, of those that tell a
    \* skipped job ('Work in progress for job') or a caught error
    console,
    \* inputs and result of the window arithmetic taken alone
    mathArgs,
    mathResult,
    \* the watched variables as they were at chosen moments, oldest first
    snapshots,
    \* the blocks the handler was given and what it did with each, where noted
    handled

chainVars == <<chainBlock, chainNetworks, chainJobs, chainOps>>
watchedVars == <<blocksInWindow, networksAmount, keep3rSequencerPosition, jobs>>
runVars == <<pc, jobFetch, windowStart, windowEnd, time, lastDelivered, blockSubscriptions>>
mathVars == <<mathArgs, mathResult>>
vars == <<chainBlock, chainNetworks, chainJobs, chainOps, events, listeners,
          blocksInWindow, networksAmount, keep3rSequencerPosition, jobs,
          jobWorkInProgress, fetches, pc, jobFetch, windowStart, windowEnd,
          time, lastDelivered, blockSubscriptions, attempts, console, mathArgs,
          mathResult, snapshots, handled>>

(***************************************************************************)
(* The sequencer contract: its read calls and its transactions             *)
(***************************************************************************)
RECURSIVE SumWindows(_)
SumWindows(networks) ==
    IF networks = <<>> THEN 0
    ELSE Head(networks).windowSize + SumWindows(Tail(networks))

totalWindowSize == SumWindows(chainNetworks)
numNetworks == Len(chainNetworks)
\* faulty variant of the read: the whitelist is indexed from its end
networkAtFromEnd(index) == chainNetworks[Len(chainNetworks) - index].tag

\* networkAt(index) reverts when index is out of range
networkAtReverts(index) == index >= Len(chainNetworks)
networkAt(index) == chainNetworks[index + 1].tag
numJobs == Len(chainJobs)
jobAtReverts(index) == index >= Len(chainJobs)
jobAt(index) == chainJobs[index + 1]

WhitelistedTags == {chainNetworks[i].tag : i \in 1..Len(chainNetworks)}
RegisteredJobs == {chainJobs[i] : i \in 1..Len(chainJobs)}

\* removal from the contract's enumerable set: the last element takes the
\* place of the removed one
SwapRemove(seq, i) ==
    LET last == Len(seq)
    IN  [k \in 1..(last - 1) |-> IF k = i THEN seq[last] ELSE seq[k]]

IndexOfTag(t) == CHOOSE i \in 1..Len(chainNetworks) : chainNetworks[i].tag = t
IndexOfJob(j) == CHOOSE i \in 1..Len(chainJobs) : chainJobs[i] = j

\* a log reaches the handlers that were registered when it was emitted
Emit(name, address, window, handlers) ==
    events' = IF listeners \cap handlers = {}
              THEN events
              ELSE Append(events, [name |-> name, address |-> address,
                                   window |-> window, to |-> listeners \cap handlers])

Running == pc # "exited"

NewBlock(maxBlock) ==
    /\ Running
    /\ chainBlock < maxBlock
    /\ chainBlock' = chainBlock + 1
    /\ UNCHANGED <<chainNetworks, chainJobs, chainOps, events, listeners, watchedVars,
                   jobWorkInProgress, fetches, runVars, attempts, console, mathVars, snapshots, handled>>

\* the blocks the chain produces while the scripts run
ChainNewBlock == NewBlock(MaxBlock)

AddNetwork(t, w, maxOps) ==
    /\ Running
    /\ chainOps < maxOps
    /\ t \notin WhitelistedTags
    /\ chainNetworks' = Append(chainNetworks, [tag |-> t, windowSize |-> w])
    /\ chainOps' = chainOps + 1
    /\ Emit("AddNetwork", t, w, {"window", "networks"})
    /\ UNCHANGED <<chainBlock, chainJobs, listeners, watchedVars, jobWorkInProgress,
                   fetches, runVars, attempts, console, mathVars, snapshots, handled>>

RemoveNetwork(t, maxOps) ==
    /\ Running
    /\ chainOps < maxOps
    /\ t \in WhitelistedTags
    /\ chainNetworks' = SwapRemove(chainNetworks, IndexOfTag(t))
    /\ chainOps' = chainOps + 1
    /\ Emit("RemoveNetwork", t, 0, {"networks"})
    /\ UNCHANGED <<chainBlock, chainJobs, listeners, watchedVars, jobWorkInProgress,
                   fetches, runVars, attempts, console, mathVars, snapshots, handled>>

AddJob(j, maxOps) ==
    /\ Running
    /\ chainOps < maxOps
    /\ j \notin RegisteredJobs
    /\ chainJobs' = Append(chainJobs, j)
    /\ chainOps' = chainOps + 1
    /\ Emit("AddJob", j, 0, {"jobs"})
    /\ UNCHANGED <<chainBlock, chainNetworks, listeners, watchedVars, jobWorkInProgress,
                   fetches, runVars, attempts, console, mathVars, snapshots, handled>>

RemoveJob(j, maxOps) ==
    /\ Running
    /\ chainOps < maxOps
    /\ j \in RegisteredJobs
    /\ chainJobs' = SwapRemove(chainJobs, IndexOfJob(j))
    /\ chainOps' = chainOps + 1
    /\ Emit("RemoveJob", j, 0, {"jobs"})
    /\ UNCHANGED <<chainBlock, chainNetworks, listeners, watchedVars, jobWorkInProgress,
                   fetches, runVars, attempts, console, mathVars, snapshots, handled>>

\* the transactions the sequencer takes while the scripts run
ChainAddNetwork(t, w) == AddNetwork(t, w, MaxChainOps)
ChainRemoveNetwork(t) == RemoveNetwork(t, MaxChainOps)
ChainAddJob(j) == AddJob(j, MaxChainOps)
ChainRemoveJob(j) == RemoveJob(j, MaxChainOps)

(***************************************************************************)
(* The process                                                             *)
(***************************************************************************)
NoJobFetch == [jobAmount |-> 0, index |-> 0, jobAddresses |-> {}]
NoJobInProgress == [j \in JobAddresses |-> FALSE]

\* a rejected promise nobody handles ends the process (node's default since
\* version 15) or is only reported (older versions, or a changed default)
ProcessExit ==
    /\ pc' = "exited"
    /\ events' = <<>>
    /\ listeners' = {}
    /\ fetches' = EmptyBag
    /\ attempts' = {}
    /\ jobWorkInProgress' = NoJobInProgress
    /\ blockSubscriptions' = 0
    /\ UNCHANGED <<chainVars, watchedVars, jobFetch, windowStart, windowEnd, time,
                   lastDelivered, console, mathVars, snapshots, handled>>

\* the synchronous start of run(): the whitelist check, then getBlock is called
RunEntry(position) == IF position = -1 THEN "halted" ELSE "getBlock"

(***************************************************************************)
(* Event handlers (provider.on)                                            *)
(***************************************************************************)
\* an invocation and its caller: "handler" (an event handler), "main" (the
\* start-up code of the Flashbots script) or "run" (run() of the
\* PrivateBroadcastor script)
NewFetch(caller) == SetToBag({[pc |-> "numNetworks", index |-> 0, caller |-> caller]})

\* faulty variant of the RemoveJob handler: removal cancels the running attempts
CancelAttempts(jobAddress) == {a \in attempts : a.job # jobAddress}

\* the RemoveJob handler calls the job's unsubscribe function if one is stored;
\* none ever is (every entry of jobs is undefined), so a running tryToWorkJob
\* of the job goes on
AttemptsAfterRemoveJob(jobAddress) == attempts

\* faulty variant of fetchNetworksAndSubscribeToChanges: only AddNetwork is
\* listened to
OnlyAddNetwork == {"AddNetwork"}

\* the events whose handler calls fetchAndUpdateNetworksData
NetworkEvents == {"AddNetwork", "RemoveNetwork"}

\* faulty variant of the RemoveJob handler: the job stays in the object
KeepJob(jobAddress) == jobs

\* the AddJob handler: jobs[jobAddress] = undefined
JobsAfterAddJob(jobAddress) == jobs \cup {jobAddress}
\* the RemoveJob handler: delete jobs[jobAddress]
JobsAfterRemoveJob(jobAddress) == jobs \ {jobAddress}

\* the provider delivers the oldest log to every handler registered for it
DeliverEvent ==
    /\ Running
    /\ events # <<>>
    /\ LET e == Head(events)
       IN  /\ events' = Tail(events)
           /\ blocksInWindow' = IF e.name = "AddNetwork" /\ "window" \in e.to
                                THEN e.window
                                ELSE blocksInWindow
           /\ fetches' = IF e.name \in NetworkEvents /\ "networks" \in e.to
                         THEN fetches (+) NewFetch("handler")
                         ELSE fetches
           /\ jobs' = CASE e.name = "AddJob" -> JobsAfterAddJob(e.address)
                        [] e.name = "RemoveJob" -> JobsAfterRemoveJob(e.address)
                        [] OTHER -> jobs
           /\ attempts' = IF e.name = "RemoveJob" /\ "jobs" \in e.to
                          THEN AttemptsAfterRemoveJob(e.address)
                          ELSE attempts
    /\ UNCHANGED <<chainVars, listeners, networksAmount, keep3rSequencerPosition,
                   jobWorkInProgress, runVars, console, mathVars, snapshots, handled>>

(***************************************************************************)
(* fetchAndUpdateNetworksData                                              *)
(***************************************************************************)
\* what the caller does when the invocation returns: an event handler
\* nothing; fetchNetworksAndSubscribeToChanges registers the two network
\* handlers, and then the Flashbots start-up code calls run(), while run() of
\* the PrivateBroadcastor script goes on to getBlock
FetchReturns(f, position) ==
    /\ fetches' = fetches (-) SetToBag({f})
    /\ CASE f.caller = "main" ->
              /\ listeners' = listeners \cup {"networks"}
              /\ pc' = RunEntry(position)
         [] f.caller = "run" ->
              /\ listeners' = listeners \cup {"networks"}
              /\ pc' = "getBlock"
         [] OTHER -> UNCHANGED <<listeners, pc>>

\* numNetworks() returns: the watched amount is set and the scan starts
FetchNumNetworks(f) ==
    /\ Running
    /\ BagIn(f, fetches)
    /\ f.pc = "numNetworks"
    /\ networksAmount' = numNetworks
    /\ IF 0 < numNetworks
       THEN /\ fetches' = (fetches (-) SetToBag({f}))
                          (+) SetToBag({[f EXCEPT !.pc = "networkAt", !.index = 0]})
            /\ UNCHANGED <<keep3rSequencerPosition, listeners, pc>>
       ELSE /\ keep3rSequencerPosition' = -1
            /\ FetchReturns(f, -1)
    /\ UNCHANGED <<chainVars, events, blocksInWindow, jobs, jobWorkInProgress, jobFetch,
                   windowStart, windowEnd, time, lastDelivered, blockSubscriptions, attempts, console, mathVars, snapshots, handled>>

\* networkAt(index) returns: match, next index, or the end of the scan; the
\* loop's bound is the watched amount, which another invocation may have set
FetchNetworkAt(f) ==
    /\ Running
    /\ BagIn(f, fetches)
    /\ f.pc = "networkAt"
    /\ ~networkAtReverts(f.index)
    /\ IF networkAt(f.index) = KEEP3R_NETWORK_TAG
       THEN /\ keep3rSequencerPosition' = f.index
            /\ FetchReturns(f, f.index)
       ELSE IF f.index + 1 < networksAmount
       THEN /\ fetches' = (fetches (-) SetToBag({f}))
                          (+) SetToBag({[f EXCEPT !.index = f.index + 1]})
            /\ UNCHANGED <<keep3rSequencerPosition, listeners, pc>>
       ELSE /\ keep3rSequencerPosition' = -1
            /\ FetchReturns(f, -1)
    /\ UNCHANGED <<chainVars, events, blocksInWindow, networksAmount, jobs, jobWorkInProgress,
                   jobFetch, windowStart, windowEnd, time, lastDelivered, blockSubscriptions, attempts, console, mathVars, snapshots, handled>>

\* networkAt(index) reverts: the invocation rejects; nobody handles the
\* rejection of an event handler or of the start-up code
FetchNetworkAtReverts(f) ==
    /\ Running
    /\ BagIn(f, fetches)
    /\ f.pc = "networkAt"
    /\ networkAtReverts(f.index)
    /\ \/ ProcessExit
       \/ /\ fetches' = fetches (-) SetToBag({f})
          /\ pc' = IF f.caller = "handler" THEN pc ELSE "failed"
          /\ UNCHANGED <<chainVars, events, listeners, watchedVars, jobWorkInProgress,
                         jobFetch, windowStart, windowEnd, time, lastDelivered, blockSubscriptions, attempts,
                         console, mathVars, snapshots, handled>>

(***************************************************************************)
(* Start-up of the Flashbots script: the three fetch...AndSubscribeToChanges*)
(***************************************************************************)
\* totalWindowSize() returns; the AddNetwork handler of the window is
\* registered and fetchJobsAndSubscribeToChanges calls numJobs()
FetchBlocksInWindow ==
    /\ pc = "totalWindowSize"
    /\ blocksInWindow' = totalWindowSize
    /\ listeners' = listeners \cup {"window"}
    /\ pc' = "numJobs"
    /\ UNCHANGED <<chainVars, events, networksAmount, keep3rSequencerPosition, jobs,
                   jobWorkInProgress, fetches, jobFetch, windowStart, windowEnd, time,
                   lastDelivered, blockSubscriptions, attempts, console, mathVars, snapshots, handled>>

\* numJobs() returns; jobAt(index) is called for every index below it
FetchNumJobs ==
    /\ pc = "numJobs"
    /\ jobFetch' = [jobAmount |-> numJobs, index |-> 0, jobAddresses |-> {}]
    /\ pc' = "jobAt"
    /\ UNCHANGED <<chainVars, events, listeners, watchedVars, jobWorkInProgress, fetches,
                   windowStart, windowEnd, time, lastDelivered, blockSubscriptions, attempts, console, mathVars, snapshots, handled>>

\* faulty variant of the store: an address already in the object is dropped
ToggleJobs(jobAddresses) == (jobs \ jobAddresses) \cup (jobAddresses \ jobs)

\* for (const jobAddress of jobAddresses) jobs[jobAddress] = undefined
StoreJobs(jobAddresses) == jobs \cup jobAddresses

\* the jobAt calls return; the jobs are stored, the job handlers registered
\* and fetchNetworksAndSubscribeToChanges calls fetchAndUpdateNetworksData
FetchJobAt ==
    /\ pc = "jobAt"
    /\ \A index \in 0..(jobFetch.jobAmount - 1) : ~jobAtReverts(index)
    /\ jobs' = StoreJobs({jobAt(index) : index \in 0..(jobFetch.jobAmount - 1)})
    /\ listeners' = listeners \cup {"jobs"}
    /\ fetches' = fetches (+) NewFetch("main")
    /\ pc' = "fetchNetworks"
    /\ jobFetch' = NoJobFetch
    /\ UNCHANGED <<chainVars, events, blocksInWindow, networksAmount,
                   keep3rSequencerPosition, jobWorkInProgress, windowStart,
                   windowEnd, time, lastDelivered, blockSubscriptions, attempts, console, mathVars, snapshots, handled>>

\* a jobAt call reverts (a job was removed in between): the start-up rejects
FetchJobAtReverts ==
    /\ pc = "jobAt"
    /\ \E index \in 0..(jobFetch.jobAmount - 1) : jobAtReverts(index)
    /\ \/ ProcessExit
       \/ /\ pc' = "failed"
          /\ UNCHANGED <<chainVars, events, listeners, watchedVars, jobWorkInProgress,
                         fetches, jobFetch, windowStart, windowEnd, time, lastDelivered, blockSubscriptions,
                         attempts, console, mathVars, snapshots, handled>>

(***************************************************************************)
(* run() of the Flashbots script                                           *)
(***************************************************************************)
\* getBlock('latest') returns: the window is computed and the timer set
GetBlock ==
    /\ pc = "getBlock"
    /\ LET start == calculateNextMasterWindow(chainBlock, blocksInWindow, networksAmount,
                                              keep3rSequencerPosition)
           remainderBlocks == Minus(start, chainBlock)
       IN  /\ windowStart' = start
           /\ windowEnd' = Plus(start, blocksInWindow)
           /\ time' = Minus(Times(remainderBlocks, BLOCK_DURATION), TOLERANCE_THRESHOLD)
    /\ pc' = "timer"
    /\ UNCHANGED <<chainVars, events, listeners, watchedVars, jobWorkInProgress, fetches,
                   jobFetch, lastDelivered, blockSubscriptions, attempts, console, mathVars, snapshots, handled>>

\* getBlock('latest') fails: run() rejects, and with it the block handler or
\* the start-up code that awaited it
GetBlockThrows ==
    /\ pc = "getBlock"
    /\ \/ ProcessExit
       \/ /\ pc' = "failed"
          /\ UNCHANGED <<chainVars, events, listeners, watchedVars, jobWorkInProgress,
                         fetches, jobFetch, windowStart, windowEnd, time, lastDelivered, blockSubscriptions,
                         attempts, console, mathVars, snapshots, handled>>

\* the timer elapses and the block listener is subscribed; the listener hands
\* over the latest block first, or only the blocks after it
SetTimeoutFires ==
    /\ pc = "timer"
    /\ pc' = "stream"
    /\ blockSubscriptions' = blockSubscriptions + 1
    /\ \E last \in {chainBlock - 1, chainBlock} : lastDelivered' = last
    /\ UNCHANGED <<chainVars, events, listeners, watchedVars, jobWorkInProgress, fetches,
                   jobFetch, windowStart, windowEnd, time, attempts, console, mathVars, snapshots, handled>>

(***************************************************************************)
(* The block handler of the Flashbots script and tryToWorkJob              *)
(***************************************************************************)
\* an attempt is at "workable" (the call before the flag is set) or at "try"
\* (the try block: getTransactionCount, populateTransactions and
\* sendAndRetryUntilNotWorkable, which touch no state of the script)
\* attempts in flight at once
MaxAttempts == 2

\* faulty variant of the guard: the flag is not looked at
NeverInProgress(jobAddress) == FALSE

\* the guard at the top of tryToWorkJob
WorkInProgress(jobAddress) == jobWorkInProgress[jobAddress]

\* tryToWorkJob up to its first await, for every job of the watched object:
\* a job in progress is logged and left, for the others workable() is called
StartedAttempts(block) ==
    {[job |-> j, block |-> block, pc |-> "workable"] : j \in {k \in jobs : ~WorkInProgress(k)}}
SkippedJobs == {[line |-> "Work in progress for job", job |-> j] : j \in {k \in jobs : WorkInProgress(k)}}

\* faulty variant of the second test: the end of the window is computed again
\* from the watched variable
WindowFinishedLive(block) == AtLeast(block.number, Plus(windowStart, blocksInWindow))

\* the two tests of the handler on the block number
StillNotInWindow(block) == LessThan(block.number, windowStart)
WindowFinished(block) == AtLeast(block.number, windowEnd)

\* what the handler does with a block
Outcome(block) ==
    IF StillNotInWindow(block) THEN "Still not in window"
    ELSE IF WindowFinished(block) THEN "Window finished!"
    ELSE "tryToWorkJob"

\* the listener hands the latest block to the handler
HandleBlock ==
    /\ pc = "stream"
    /\ chainBlock > lastDelivered
    /\ LET block == [number |-> chainBlock]
       IN  IF StillNotInWindow(block)
           THEN /\ lastDelivered' = block.number
                /\ UNCHANGED <<pc, blockSubscriptions, attempts, console>>
           ELSE IF WindowFinished(block)
           THEN /\ lastDelivered' = Undefined
                /\ blockSubscriptions' = blockSubscriptions - 1
                /\ pc' = RunEntry(keep3rSequencerPosition)
                /\ UNCHANGED <<attempts, console>>
           ELSE /\ lastDelivered' = block.number
                /\ Cardinality(attempts \cup StartedAttempts(block.number)) <= MaxAttempts
                /\ attempts' = attempts \cup StartedAttempts(block.number)
                /\ console' = IF SkippedJobs = {} THEN console ELSE SkippedJobs
                /\ UNCHANGED <<pc, blockSubscriptions>>
    /\ UNCHANGED <<chainVars, events, listeners, watchedVars, jobWorkInProgress, fetches,
                   jobFetch, windowStart, windowEnd, time, mathVars, snapshots>>

BlockHandler == HandleBlock /\ UNCHANGED handled

\* the same, the block and what was done with it being noted
NotedBlockHandler ==
    /\ HandleBlock
    /\ handled' = handled \cup {[number |-> chainBlock,
                                  outcome |-> Outcome([number |-> chainBlock])]}

\* the finally block of tryToWorkJob
Finally(jobAddress) == [jobWorkInProgress EXCEPT ![jobAddress] = FALSE]

\* faulty variant of the error path: the flag is reset by the try block only
CatchWithoutFinally(jobAddress) == jobWorkInProgress

\* the error path of tryToWorkJob: catch logs the error, finally resets the flag
CatchAndFinally(jobAddress) == Finally(jobAddress)

\* job.workable() returns
Workable(a, isWorkable) ==
    /\ Running
    /\ a \in attempts
    /\ a.pc = "workable"
    /\ IF isWorkable
       THEN /\ jobWorkInProgress' = [jobWorkInProgress EXCEPT ![a.job] = TRUE]
            /\ attempts' = (attempts \ {a}) \cup {[a EXCEPT !.pc = "try"]}
       ELSE /\ attempts' = attempts \ {a}
            /\ UNCHANGED jobWorkInProgress
    /\ UNCHANGED <<chainVars, events, listeners, watchedVars, fetches, runVars, console,
                   mathVars, snapshots, handled>>

\* job.workable() fails: the call is outside the try, tryToWorkJob rejects,
\* and with it Promise.all and the block handler, which nobody awaits
WorkableThrows(a) ==
    /\ Running
    /\ a \in attempts
    /\ a.pc = "workable"
    /\ \/ ProcessExit
       \/ /\ attempts' = attempts \ {a}
          /\ UNCHANGED <<chainVars, events, listeners, watchedVars, jobWorkInProgress,
                         fetches, runVars, console, mathVars, snapshots, handled>>

\* the awaited calls of the try block return; then finally
TryReturns(a) ==
    /\ Running
    /\ a \in attempts
    /\ a.pc = "try"
    /\ attempts' = attempts \ {a}
    /\ jobWorkInProgress' = Finally(a.job)
    /\ UNCHANGED <<chainVars, events, listeners, watchedVars, fetches, runVars, console,
                   mathVars, snapshots, handled>>

\* an awaited call of the try block fails: catch logs the error, then finally
TryThrows(a) ==
    /\ Running
    /\ a \in attempts
    /\ a.pc = "try"
    /\ attempts' = attempts \ {a}
    /\ jobWorkInProgress' = CatchAndFinally(a.job)
    /\ console' = {[line |-> "error", job |-> a.job]}
    /\ UNCHANGED <<chainVars, events, listeners, watchedVars, fetches, runVars, mathVars, snapshots, handled>>

(***************************************************************************)
(* The Flashbots script                                                    *)
(***************************************************************************)
InitialWhitelists ==
    {<<>>,
     <<[tag |-> "KEEP3R", windowSize |-> 1]>>,
     <<[tag |-> "OTHER", windowSize |-> 1]>>,
     <<[tag |-> "KEEP3R", windowSize |-> 1], [tag |-> "OTHER", windowSize |-> 1]>>,
     <<[tag |-> "OTHER", windowSize |-> 1], [tag |-> "KEEP3R", windowSize |-> 1]>>,
     <<[tag |-> "OTHER", windowSize |-> 6], [tag |-> "KEEP3R", windowSize |-> 1]>>}
InitialJobLists == {<<"jobA">>}

NoMathArgs == [blockNumber |-> 0, blocksInWindow |-> 1, networksAmount |-> 1, mainPosition |-> 0]

InitChain ==
    /\ chainBlock = 0
    /\ chainNetworks \in InitialWhitelists
    /\ chainJobs \in InitialJobLists
    /\ chainOps = 0

InitProcess ==
    /\ events = <<>>
    /\ listeners = {}
    /\ jobs = {}
    /\ jobWorkInProgress = NoJobInProgress
    /\ fetches = EmptyBag
    /\ windowStart = Undefined
    /\ windowEnd = Undefined
    /\ time = Undefined
    /\ lastDelivered = Undefined
    /\ blockSubscriptions = 0
    /\ attempts = {}
    /\ console = {}
    /\ snapshots = <<>>
    /\ handled = {}

Init ==
    /\ InitChain
    /\ InitProcess
    /\ jobFetch = NoJobFetch
    /\ blocksInWindow = Undefined
    /\ networksAmount = Undefined
    /\ keep3rSequencerPosition = Undefined
    /\ pc = "totalWindowSize"
    /\ mathArgs = NoMathArgs
    /\ mathResult = Undefined

FetchRecords ==
    [pc : {"numNetworks", "networkAt"}, index : 0..Cardinality(Tags),
     caller : {"handler", "main", "run"}]
AttemptRecords ==
    [job : JobAddresses, block : 0..MaxBlock, pc : {"workable", "try"}]

Environment ==
    \/ ChainNewBlock
    \/ \E t \in Tags, w \in WindowSizes : ChainAddNetwork(t, w)
    \/ \E t \in Tags : ChainRemoveNetwork(t)
    \/ \E j \in JobAddresses : ChainAddJob(j)
    \/ \E j \in JobAddresses : ChainRemoveJob(j)

Watchers ==
    \/ DeliverEvent
    \/ \E f \in FetchRecords : FetchNumNetworks(f)
    \/ \E f \in FetchRecords : FetchNetworkAt(f)
    \/ \E f \in FetchRecords : FetchNetworkAtReverts(f)

Next ==
    \/ Environment
    \/ Watchers
    \/ FetchBlocksInWindow
    \/ FetchNumJobs
    \/ FetchJobAt
    \/ FetchJobAtReverts
    \/ GetBlock
    \/ GetBlockThrows
    \/ SetTimeoutFires
    \/ BlockHandler
    \/ \E a \in AttemptRecords, isWorkable \in BOOLEAN : Workable(a, isWorkable)
    \/ \E a \in AttemptRecords : WorkableThrows(a)
    \/ \E a \in AttemptRecords : TryReturns(a)
    \/ \E a \in AttemptRecords : TryThrows(a)

Spec == Init /\ [][Next]_vars

\* every promise of a try block settles: the awaited call returns or fails
TrySettles == WF_vars(\E a \in attempts : TryReturns(a) \/ TryThrows(a))

FairSpec == Init /\ [][Next]_vars /\ TrySettles

(***************************************************************************)
(* The window arithmetic taken alone                                       *)
(***************************************************************************)
\* the inputs that satisfy the function's preconditions
MathInputs ==
    {in \in [blockNumber : 0..MathMaxBlock, blocksInWindow : 1..MathMaxWindow,
             networksAmount : 1..MathMaxNetworks, mainPosition : 0..(MathMaxNetworks - 1)] :
        in.mainPosition < in.networksAmount}

InitMath ==
    /\ chainBlock = 0
    /\ chainNetworks = <<>>
    /\ chainJobs = <<>>
    /\ chainOps = 0
    /\ InitProcess
    /\ jobFetch = NoJobFetch
    /\ blocksInWindow = Undefined
    /\ networksAmount = Undefined
    /\ keep3rSequencerPosition = Undefined
    /\ pc = "math"
    /\ mathArgs \in MathInputs
    /\ mathResult = Undefined

MathCall ==
    /\ pc = "math"
    /\ mathResult' = calculateNextMasterWindow(mathArgs.blockNumber, mathArgs.blocksInWindow,
                                               mathArgs.networksAmount, mathArgs.mainPosition)
    /\ pc' = "mathDone"
    /\ UNCHANGED <<chainVars, events, listeners, watchedVars, jobWorkInProgress, fetches,
                   jobFetch, windowStart, windowEnd, time, lastDelivered, blockSubscriptions, attempts, console, mathArgs, snapshots, handled>>

NextMath == MathCall

SpecMath == InitMath /\ [][NextMath]_vars

(***************************************************************************)
(* The PrivateBroadcastor script                                           *)
(***************************************************************************)
\* run() starts: the whitelist check on the initial position, then
\* fetchBlocksInWindowAndSubscribeToChanges calls totalWindowSize()
PBRunEntry ==
    /\ pc = "run"
    /\ pc' = IF keep3rSequencerPosition = -1 THEN "halted" ELSE "totalWindowSize"
    /\ UNCHANGED <<chainVars, events, listeners, watchedVars, jobWorkInProgress, fetches,
                   jobFetch, windowStart, windowEnd, time, lastDelivered, blockSubscriptions, attempts, console, mathVars, snapshots, handled>>

\* what follows the loop over jobAt: the jobs are stored, the job handlers
\* registered and fetchNetworksAndSubscribeToChanges is called
PBStoreJobs(jobAddresses) ==
    /\ jobs' = jobs \cup jobAddresses
    /\ listeners' = listeners \cup {"jobs"}
    /\ fetches' = fetches (+) NewFetch("run")
    /\ pc' = "fetchNetworks"
    /\ jobFetch' = NoJobFetch

\* numJobs() returns; the loop calls jobAt(0), or there is no job
PBFetchNumJobs ==
    /\ pc = "numJobs"
    /\ IF 0 < numJobs
       THEN /\ jobFetch' = [jobAmount |-> numJobs, index |-> 0, jobAddresses |-> {}]
            /\ pc' = "jobAt"
            /\ UNCHANGED <<jobs, listeners, fetches>>
       ELSE PBStoreJobs({})
    /\ UNCHANGED <<chainVars, events, blocksInWindow, networksAmount,
                   keep3rSequencerPosition, jobWorkInProgress, windowStart, windowEnd, time,
                   lastDelivered, blockSubscriptions, attempts, console, mathVars, snapshots, handled>>

\* jobAt(index) returns: the next index, or the end of the loop
PBFetchJobAt ==
    /\ pc = "jobAt"
    /\ ~jobAtReverts(jobFetch.index)
    /\ LET jobAddresses == jobFetch.jobAddresses \cup {jobAt(jobFetch.index)}
       IN  IF jobFetch.index + 1 < jobFetch.jobAmount
           THEN /\ jobFetch' = [jobFetch EXCEPT !.index = jobFetch.index + 1,
                                                !.jobAddresses = jobAddresses]
                /\ UNCHANGED <<jobs, listeners, fetches, pc>>
           ELSE PBStoreJobs(jobAddresses)
    /\ UNCHANGED <<chainVars, events, blocksInWindow, networksAmount,
                   keep3rSequencerPosition, jobWorkInProgress, windowStart, windowEnd, time,
                   lastDelivered, blockSubscriptions, attempts, console, mathVars, snapshots, handled>>

PBFetchJobAtReverts ==
    /\ pc = "jobAt"
    /\ jobAtReverts(jobFetch.index)
    /\ \/ ProcessExit
       \/ /\ pc' = "failed"
          /\ UNCHANGED <<chainVars, events, listeners, watchedVars, jobWorkInProgress,
                         fetches, jobFetch, windowStart, windowEnd, time, lastDelivered, blockSubscriptions,
                         attempts, console, mathVars, snapshots, handled>>

\* getBlock('latest') returns: the window is computed and the block listener
\* subscribed at once (no timer is set)
PBGetBlock ==
    /\ pc = "getBlock"
    /\ LET start == calculateNextMasterWindow(chainBlock, blocksInWindow, networksAmount,
                                              keep3rSequencerPosition)
           remainderBlocks == Minus(start, chainBlock)
       IN  /\ windowStart' = start
           /\ windowEnd' = Plus(start, blocksInWindow)
           /\ time' = Minus(Times(remainderBlocks, BLOCK_DURATION), TOLERANCE_THRESHOLD)
    /\ pc' = "stream"
    /\ blockSubscriptions' = blockSubscriptions + 1
    /\ \E last \in {chainBlock - 1, chainBlock} : lastDelivered' = last
    /\ UNCHANGED <<chainVars, events, listeners, watchedVars, jobWorkInProgress, fetches,
                   jobFetch, attempts, console, mathVars, snapshots, handled>>

\* the handler of a block: before the window nothing, otherwise workable() is
\* called for every job of the watched object
PBBlockHandler ==
    /\ pc = "stream"
    /\ chainBlock > lastDelivered
    /\ lastDelivered' = chainBlock
    /\ LET block == [number |-> chainBlock]
           started == {[job |-> j, block |-> block.number, pc |-> "workable"] : j \in jobs}
       IN  IF StillNotInWindow(block)
           THEN UNCHANGED attempts
           ELSE /\ Cardinality(attempts \cup started) <= MaxAttempts
                /\ attempts' = attempts \cup started
    /\ UNCHANGED <<chainVars, events, listeners, watchedVars, jobWorkInProgress, fetches,
                   pc, jobFetch, windowStart, windowEnd, time, blockSubscriptions, console,
                   mathVars, snapshots, handled>>

\* job.workable() returns: broadcastMethod is called when the job is workable
PBWorkable(a, workable) ==
    /\ Running
    /\ a \in attempts
    /\ a.pc = "workable"
    /\ attempts' = IF workable
                   THEN (attempts \ {a}) \cup {[a EXCEPT !.pc = "broadcastMethod"]}
                   ELSE attempts \ {a}
    /\ UNCHANGED <<chainVars, events, listeners, watchedVars, jobWorkInProgress, fetches,
                   runVars, console, mathVars, snapshots, handled>>

\* broadcastMethod returns
PBBroadcastReturns(a) ==
    /\ Running
    /\ a \in attempts
    /\ a.pc = "broadcastMethod"
    /\ attempts' = attempts \ {a}
    /\ UNCHANGED <<chainVars, events, listeners, watchedVars, jobWorkInProgress, fetches,
                   runVars, console, mathVars, snapshots, handled>>

\* job.workable() or broadcastMethod fails: the handler rejects, unhandled
PBAttemptThrows(a) ==
    /\ Running
    /\ a \in attempts
    /\ \/ ProcessExit
       \/ /\ attempts' = attempts \ {a}
          /\ UNCHANGED <<chainVars, events, listeners, watchedVars, jobWorkInProgress,
                         fetches, runVars, console, mathVars, snapshots, handled>>

InitPB ==
    /\ InitChain
    /\ InitProcess
    /\ jobFetch = NoJobFetch
    /\ blocksInWindow = Undefined
    /\ networksAmount = Undefined
    /\ keep3rSequencerPosition = 0
    /\ pc = "run"
    /\ mathArgs = NoMathArgs
    /\ mathResult = Undefined

PBAttemptRecords ==
    [job : JobAddresses, block : 0..MaxBlock, pc : {"workable", "broadcastMethod"}]

NextPB ==
    \/ Environment
    \/ Watchers
    \/ PBRunEntry
    \/ FetchBlocksInWindow
    \/ PBFetchNumJobs
    \/ PBFetchJobAt
    \/ PBFetchJobAtReverts
    \/ PBGetBlock
    \/ GetBlockThrows
    \/ PBBlockHandler
    \/ \E a \in PBAttemptRecords, workable \in BOOLEAN : PBWorkable(a, workable)
    \/ \E a \in PBAttemptRecords : PBBroadcastReturns(a)
    \/ \E a \in PBAttemptRecords : PBAttemptThrows(a)

SpecPB == InitPB /\ [][NextPB]_vars

(***************************************************************************)
(* The watchers after start-up                                             *)
(***************************************************************************)
\* sequencer transactions while the watchers are taken alone
MaxWatchOps == 4

\* the index fetchAndUpdateNetworksData finds on the sequencer as it is
SyncedPosition ==
    IF KEEP3R_NETWORK_TAG \in WhitelistedTags THEN IndexOfTag(KEEP3R_NETWORK_TAG) - 1 ELSE -1

\* the watched variables
ProtocolState ==
    [blocksInWindow |-> blocksInWindow, networksAmount |-> networksAmount,
     keep3rSequencerPosition |-> keep3rSequencerPosition, jobs |-> jobs]

\* the three fetch...AndSubscribeToChanges have returned on a sequencer that
\* did not change meanwhile, and run() was entered
InitWatch ==
    /\ InitChain
    /\ events = <<>>
    /\ listeners = {"window", "jobs", "networks"}
    /\ blocksInWindow = totalWindowSize
    /\ networksAmount = numNetworks
    /\ keep3rSequencerPosition = SyncedPosition
    /\ jobs = RegisteredJobs
    /\ jobWorkInProgress = NoJobInProgress
    /\ fetches = EmptyBag
    /\ pc = RunEntry(SyncedPosition)
    /\ jobFetch = NoJobFetch
    /\ windowStart = Undefined
    /\ windowEnd = Undefined
    /\ time = Undefined
    /\ lastDelivered = Undefined
    /\ blockSubscriptions = 0
    /\ attempts = {}
    /\ console = {}
    /\ mathArgs = NoMathArgs
    /\ mathResult = Undefined
    /\ snapshots = <<ProtocolState>>
    /\ handled = {}

\* a network is added, and the same network removed next, and so on
AddThenRemoveAdd(t, w) == chainOps % 2 = 0 /\ AddNetwork(t, w, MaxWatchOps)
AddThenRemoveRemove ==
    /\ chainOps % 2 = 1
    /\ RemoveNetwork(chainNetworks[Len(chainNetworks)].tag, MaxWatchOps)

NextAddThenRemove ==
    \/ \E t \in Tags, w \in WindowSizes : AddThenRemoveAdd(t, w)
    \/ AddThenRemoveRemove
    \/ Watchers

SpecAddThenRemove == InitWatch /\ [][NextAddThenRemove]_vars

\* the provider misses a log: no handler is called for it
LoseEvent ==
    /\ Running
    /\ events # <<>>
    /\ events' = Tail(events)
    /\ UNCHANGED <<chainVars, listeners, watchedVars, jobWorkInProgress, fetches, runVars,
                   attempts, console, mathVars, snapshots, handled>>

NextLossy ==
    \/ \E t \in Tags, w \in WindowSizes : AddNetwork(t, w, MaxWatchOps)
    \/ \E t \in Tags : RemoveNetwork(t, MaxWatchOps)
    \/ \E j \in JobAddresses : AddJob(j, MaxWatchOps)
    \/ \E j \in JobAddresses : RemoveJob(j, MaxWatchOps)
    \/ Watchers
    \/ LoseEvent

SpecLossy == InitWatch /\ [][NextLossy]_vars

(***************************************************************************)
(* The cycles of run() on a sequencer that does not change                 *)
(***************************************************************************)
\* highest block number the chain reaches while the cycles are taken alone
MaxCycleBlock == 5

NextCycle ==
    \/ NewBlock(MaxCycleBlock)
    \/ GetBlock
    \/ SetTimeoutFires
    \/ NotedBlockHandler
    \/ \E a \in attempts, isWorkable \in BOOLEAN : Workable(a, isWorkable)
    \/ \E a \in attempts : TryReturns(a)

SpecCycle == InitWatch /\ [][NextCycle]_vars

(***************************************************************************)
(* The network handlers on a whitelist of up to three networks             *)
(***************************************************************************)
\* sequencer transactions while the network handlers are taken alone
MaxConcurrentOps == 2

ConcurrentTags == Tags \cup {"THIRD"}
ConcurrentWhitelists ==
    {<<[tag |-> "OTHER", windowSize |-> 1], [tag |-> "THIRD", windowSize |-> 1]>>,
     <<[tag |-> "OTHER", windowSize |-> 1], [tag |-> "KEEP3R", windowSize |-> 1]>>,
     <<[tag |-> "KEEP3R", windowSize |-> 1], [tag |-> "OTHER", windowSize |-> 1]>>,
     <<[tag |-> "OTHER", windowSize |-> 1], [tag |-> "THIRD", windowSize |-> 1],
       [tag |-> "KEEP3R", windowSize |-> 1]>>}
ConcurrentFetchRecords ==
    [pc : {"numNetworks", "networkAt"}, index : 0..Cardinality(ConcurrentTags),
     caller : {"handler"}]

InitConcurrent ==
    /\ chainBlock = 0
    /\ chainNetworks \in ConcurrentWhitelists
    /\ chainJobs \in InitialJobLists
    /\ chainOps = 0
    /\ events = <<>>
    /\ listeners = {"window", "jobs", "networks"}
    /\ blocksInWindow = totalWindowSize
    /\ networksAmount = numNetworks
    /\ keep3rSequencerPosition = SyncedPosition
    /\ jobs = RegisteredJobs
    /\ jobWorkInProgress = NoJobInProgress
    /\ fetches = EmptyBag
    /\ pc = RunEntry(SyncedPosition)
    /\ jobFetch = NoJobFetch
    /\ windowStart = Undefined
    /\ windowEnd = Undefined
    /\ time = Undefined
    /\ lastDelivered = Undefined
    /\ blockSubscriptions = 0
    /\ attempts = {}
    /\ console = {}
    /\ mathArgs = NoMathArgs
    /\ mathResult = Undefined
    /\ snapshots = <<ProtocolState>>
    /\ handled = {}

NextConcurrent ==
    \/ \E t \in ConcurrentTags, w \in WindowSizes : AddNetwork(t, w, MaxConcurrentOps)
    \/ \E t \in ConcurrentTags : RemoveNetwork(t, MaxConcurrentOps)
    \/ DeliverEvent
    \/ \E f \in ConcurrentFetchRecords : FetchNumNetworks(f)
    \/ \E f \in ConcurrentFetchRecords : FetchNetworkAt(f)
    \/ \E f \in ConcurrentFetchRecords : FetchNetworkAtReverts(f)

SpecConcurrent == InitConcurrent /\ [][NextConcurrent]_vars

(***************************************************************************)
(* The full resync taken alone, on a sequencer that does not change        *)
(***************************************************************************)
\* number of times the resync is run
MaxResyncs == 2

\* values the watched variables may hold when a resync starts
PriorNumbers == {Undefined, 0, 3}
PriorPositions == {Undefined, -1, 0, 3}

InitResync ==
    /\ InitChain
    /\ events = <<>>
    /\ listeners = {}
    /\ blocksInWindow \in PriorNumbers
    /\ networksAmount \in PriorNumbers
    /\ keep3rSequencerPosition \in PriorPositions
    /\ jobs \in SUBSET JobAddresses
    /\ jobWorkInProgress = NoJobInProgress
    /\ fetches = EmptyBag
    /\ pc = "totalWindowSize"
    /\ jobFetch = NoJobFetch
    /\ windowStart = Undefined
    /\ windowEnd = Undefined
    /\ time = Undefined
    /\ lastDelivered = Undefined
    /\ blockSubscriptions = 0
    /\ attempts = {}
    /\ console = {}
    /\ mathArgs = NoMathArgs
    /\ mathResult = Undefined
    /\ snapshots = <<>>
    /\ handled = {}

\* the three fetches have returned: the watched variables are noted, and the
\* three fetches are called again
ResyncAgain ==
    /\ pc \in {"getBlock", "halted"}
    /\ Len(snapshots) < MaxResyncs
    /\ snapshots' = Append(snapshots, ProtocolState)
    /\ pc' = IF Len(snapshots) + 1 < MaxResyncs THEN "totalWindowSize" ELSE "resynced"
    /\ UNCHANGED <<chainVars, events, listeners, watchedVars, jobWorkInProgress, fetches,
                   jobFetch, windowStart, windowEnd, time, lastDelivered, blockSubscriptions,
                   attempts, console, mathVars, handled>>

NextResync ==
    \/ FetchBlocksInWindow
    \/ FetchNumJobs
    \/ FetchJobAt
    \/ \E f \in FetchRecords : FetchNumNetworks(f)
    \/ \E f \in FetchRecords : FetchNetworkAt(f)
    \/ ResyncAgain

SpecResync == InitResync /\ [][NextResync]_vars

(***************************************************************************)
(* Properties of the window arithmetic (SpecMath)                          *)
(***************************************************************************)
MathDone == pc = "mathDone"
MathFullWindow == mathArgs.blocksInWindow * mathArgs.networksAmount
MathOffset == mathArgs.mainPosition * mathArgs.blocksInWindow

\* C2: for valid inputs the result is at least the current block and is
\* congruent to selfPosition * windowLength modulo windowLength * whitelistSize
C2_AtLeastCurrentAndCongruent ==
    MathDone =>
        /\ mathResult >= mathArgs.blockNumber
        /\ mathResult % MathFullWindow = MathOffset % MathFullWindow

\* a call in the middle of a cycle, for a network that is not the first
C2_Witness ==
    /\ MathDone
    /\ mathArgs.mainPosition > 0
    /\ mathResult > mathArgs.blockNumber
    /\ mathArgs.blockNumber > MathFullWindow

\* the search of the function's documentation: one block is added at a time
\* until the block is the first block of the network's window
IsMasterFirstBlock(b) == (b - MathOffset) % MathFullWindow = 0
ReferenceSearch ==
    CHOOSE b \in mathArgs.blockNumber..(mathArgs.blockNumber + MathFullWindow) :
        /\ IsMasterFirstBlock(b)
        /\ \A c \in mathArgs.blockNumber..(b - 1) : ~IsMasterFirstBlock(c)

\* C3: the result is the smallest window start that is at least the current
\* block (the current block itself when it starts a window), less than a full
\* cycle ahead; and 100, 13, 5, 2 gives 156
C3_SmallestWindowStart ==
    MathDone =>
        /\ mathResult = ReferenceSearch
        /\ mathResult - mathArgs.blockNumber < MathFullWindow
        /\ IsMasterFirstBlock(mathArgs.blockNumber) => mathResult = mathArgs.blockNumber
        /\ mathArgs = [blockNumber |-> 100, blocksInWindow |-> 13, networksAmount |-> 5,
                       mainPosition |-> 2] => mathResult = 156

\* the boundary of the example: the current block is the offset itself
C3_Witness ==
    /\ MathDone
    /\ mathArgs = [blockNumber |-> 26, blocksInWindow |-> 13, networksAmount |-> 5,
                   mainPosition |-> 2]
    /\ mathResult = 26

(***************************************************************************)
(* Properties of tryToWorkJob and of the cycle of the Flashbots script     *)
(***************************************************************************)
AttemptsInTry(j) == {a \in attempts : a.job = j /\ a.pc = "try"}
\* an attempt is the call of tryToWorkJob for a job and a block
Calls(as) == {[job |-> a.job, block |-> a.block] : a \in as}

\* C1: at most one work attempt per job address is past the guard and at
\* work (one Broadcast for two overlapping detections of the same job)
C1_OneAttemptPerJob ==
    \A j \in JobAddresses : Cardinality(AttemptsInTry(j)) <= 1

\* C5: when an attempt leaves the try block, by an error as by a return, the
\* job's flag is false in the state the next block is handled in
C5_FlagClearedAfterThrow ==
    [][\A a \in attempts :
          (a.pc = "try" /\ a \notin attempts') => ~jobWorkInProgress'[a.job]]_vars

\* the Broadcast of jobA has failed, the flag is down and the block listener
\* still subscribed: the next block in the window attempts jobA again
C5_Witness ==
    /\ console = {[line |-> "error", job |-> "jobA"]}
    /\ ~jobWorkInProgress["jobA"]
    /\ "jobA" \in jobs
    /\ pc = "stream"

\* C9: a job's flag is up only while an attempt of the job is in its try
\* block, and every flag that is up comes down again; the removal of the job
\* from the watched jobs changes neither
C9_FlagNeverStuck ==
    /\ [](\A j \in JobAddresses : jobWorkInProgress[j] => AttemptsInTry(j) # {})
    /\ \A j \in JobAddresses : jobWorkInProgress[j] ~> ~jobWorkInProgress[j]

\* jobA was removed from the watched jobs while its attempt is at work
C9_Witness ==
    /\ "jobA" \notin jobs
    /\ jobWorkInProgress["jobA"]
    /\ AttemptsInTry("jobA") # {}

\* C6: the position is below the amount of networks whenever it is not -1,
\* in every state, those in the middle of a recomputation included
C6_PositionBelowAmount ==
    keep3rSequencerPosition \notin {-1, Undefined} =>
        keep3rSequencerPosition < networksAmount

\* C10: the end of a job's attempt, whatever its outcome, leaves the
\* scheduler where it is and the flag down
C10_JobErrorsContained ==
    [][\A c \in Calls(attempts) \ Calls(attempts') :
          pc' = pc /\ ~jobWorkInProgress'[c.job]]_vars

(***************************************************************************)
(* Properties of the scheduling cycle                                      *)
(***************************************************************************)
\* a scan of the whole whitelist has ended without a match
NotWhitelisted == keep3rSequencerPosition = -1 /\ fetches = EmptyBag

\* C4: once a scan of the whitelist has set the position to -1, no window is
\* computed, no block subscription started and no job attempted
C4_HaltedWhenNotWhitelisted ==
    [][NotWhitelisted =>
          /\ ~(pc = "getBlock" /\ pc' \in {"timer", "stream"})
          /\ ~(pc # "stream" /\ pc' = "stream")
          /\ Calls(attempts') \subseteq Calls(attempts)]_vars

\* the last scan of the whitelist found the Keep3r network
Whitelisted == keep3rSequencerPosition >= 0

\* C7: while the Keep3r network is whitelisted, every attempt is started for a
\* block inside the scheduled window (windows that are not numbers apart)
C7_AttemptsInsideWindow ==
    [][(Whitelisted /\ windowStart # NaN) =>
          \A c \in Calls(attempts') \ Calls(attempts) :
              c.block >= windowStart /\ c.block < windowEnd]_vars

\* C8: while the Keep3r network is whitelisted the scheduler leaves IN_WINDOW
\* for the next cycle: a block at or past the window's end that the handler
\* is given ends the block subscription
C8_WindowEndsSubscription ==
    [][(Whitelisted /\ pc = "stream" /\ lastDelivered' # lastDelivered
            /\ AtLeast(chainBlock, windowEnd))
          => pc' # "stream"]_vars

(***************************************************************************)
(* Properties of the start of a cycle and of the block subscription        *)
(***************************************************************************)
\* C11: a failure of the read of the latest block at the start of a cycle is
\* caught and the cycle retried: the scheduler that waits for the block goes
\* on to a timer or a subscription, or halts, and is never left without both
C11_CycleStartIsRetried ==
    [][(pc = "getBlock" /\ fetches = EmptyBag /\ attempts = {})
          => pc' \in {"getBlock", "timer", "stream", "halted"}]_vars

\* C12: the block subscription is cancelled when the window closes: at most
\* one subscription is active, and none is left once the handler has been
\* given a block at or past the window's end
C12_SubscriptionCancelledAtWindowClose ==
    /\ [](blockSubscriptions <= 1)
    /\ [][(Whitelisted /\ blockSubscriptions > 0 /\ lastDelivered' # lastDelivered
              /\ AtLeast(chainBlock, windowEnd))
            => blockSubscriptions' = 0]_vars

(***************************************************************************)
(* Properties of the watched variables                                     *)
(***************************************************************************)
\* the handlers of a whitelist event have run
NetworkEventHandled ==
    /\ events # <<>>
    /\ Head(events).name \in {"AddNetwork", "RemoveNetwork"}
    /\ events' = Tail(events)
    /\ pc' # "exited"

\* C13: once the handlers of an AddNetwork or of a RemoveNetwork event have
\* run, blocksInWindow is the sequencer's totalWindowSize
C13_WindowLengthRefetched ==
    [][NetworkEventHandled => blocksInWindow' = totalWindowSize]_vars

\* no log waits for its handlers and no fetchAndUpdateNetworksData is running
Settled == events = <<>> /\ fetches = EmptyBag /\ Running

\* C14: when the handlers of the AddNetwork event of a network and then those
\* of its RemoveNetwork event have run, the position and the amount of
\* networks are what they were before the network was added
C14_AddThenRemoveRestores ==
    (chainOps > 0 /\ chainOps % 2 = 0 /\ Settled) =>
        /\ networksAmount = snapshots[1].networksAmount
        /\ keep3rSequencerPosition = snapshots[1].keep3rSequencerPosition

\* OTHER was added behind KEEP3R and removed again, and both events handled
C14_Witness ==
    /\ chainOps = 2
    /\ Settled
    /\ keep3rSequencerPosition = 0
    /\ networksAmount = 1
    /\ snapshots[1].networksAmount = 1

\* C15: a full resync run again on an unchanged sequencer leaves the watched
\* variables as the first run left them
C15_ResyncIdempotent ==
    \A i \in DOMAIN snapshots : \A k \in DOMAIN snapshots : snapshots[i] = snapshots[k]

\* the resync ran twice, on a watched object that held a job of its own
C15_Witness ==
    /\ Len(snapshots) = 2
    /\ snapshots[2].jobs = {"jobA", "jobB"}
    /\ snapshots[2].keep3rSequencerPosition = 1
    /\ snapshots[2].networksAmount = 2

\* C16: a log the provider missed is made up for: when nothing is pending any
\* more, the watched jobs, amount of networks and position are the sequencer's
C16_MissedEventsRepaired ==
    Settled =>
        /\ jobs = RegisteredJobs
        /\ networksAmount = numNetworks
        /\ keep3rSequencerPosition = SyncedPosition

\* the handler of a job event has run
JobEventHandled(name) ==
    /\ events # <<>>
    /\ Head(events).name = name
    /\ events' = Tail(events)
    /\ pc' # "exited"

\* the handler is given a block inside the window
InWindowBlockHandled ==
    /\ pc = "stream"
    /\ lastDelivered' = chainBlock
    /\ lastDelivered' # lastDelivered
    /\ ~StillNotInWindow([number |-> chainBlock])
    /\ ~WindowFinished([number |-> chainBlock])

\* C17: the AddJob handler puts the job into the watched jobs and the
\* RemoveJob handler takes it out, neither touching the other watched
\* variables; a block inside the window starts an attempt for every watched
\* job that is not at work, and attempts are started for watched jobs only
C17_JobEventsMutateTrackedJobs ==
    [][/\ JobEventHandled("AddJob") => Head(events).address \in jobs'
       /\ JobEventHandled("RemoveJob") => Head(events).address \notin jobs'
       /\ (JobEventHandled("AddJob") \/ JobEventHandled("RemoveJob")) =>
              <<blocksInWindow, networksAmount, keep3rSequencerPosition>>'
                  = <<blocksInWindow, networksAmount, keep3rSequencerPosition>>
       /\ \A c \in Calls(attempts') \ Calls(attempts) : c.job \in jobs
       /\ InWindowBlockHandled =>
              \A j \in jobs : ~WorkInProgress(j)
                                => [job |-> j, block |-> chainBlock] \in Calls(attempts')]_vars

\* jobB was added while jobA, attempted at block 0, was at work: the AddJob
\* event was handled and block 1 of the window attempted jobB
C17_Witness ==
    /\ jobs = {"jobA", "jobB"}
    /\ attempts = {[job |-> "jobA", block |-> 0, pc |-> "try"],
                   [job |-> "jobB", block |-> 1, pc |-> "workable"]}
    /\ events = <<>>

(***************************************************************************)
(* Properties of the dispatch and of the timer                             *)
(***************************************************************************)
\* the attempts whose workable() call has ended without a Broadcast
ReturnedBeforeTry ==
    {a \in attempts : a.pc = "workable" /\ [job |-> a.job, block |-> a.block] \notin Calls(attempts')}

\* C19: a block inside the window calls tryToWorkJob for every watched job;
\* an attempt enters its try block (the Broadcast) only from its own
\* workable() call, for the same job and block; and when an attempt returns
\* without a Broadcast the job's flag is false
C19_DispatchAndBroadcastOnlyIfWorkable ==
    [][/\ InWindowBlockHandled =>
              \A j \in jobs : \/ [job |-> j, block |-> chainBlock] \in Calls(attempts')
                               \/ [line |-> "Work in progress for job", job |-> j] \in console'
       /\ \A a \in attempts' \ attempts :
              a.pc = "try" => [a EXCEPT !.pc = "workable"] \in attempts
       /\ pc' # "exited" => \A a \in ReturnedBeforeTry : ~jobWorkInProgress'[a.job]]_vars

\* C20: run() computes the time to wait as the time to the window less the
\* tolerance, and when that time is positive the block listener is
\* subscribed by the timer set with it, not before
C20_SubscribesAfterWaiting ==
    [][/\ (pc = "getBlock" /\ pc' \in {"timer", "stream"} /\ windowStart' # NaN) =>
              time' = (windowStart' - chainBlock) * BLOCK_DURATION - TOLERANCE_THRESHOLD
       /\ (blockSubscriptions' > blockSubscriptions /\ time' # NaN /\ time' > 0) =>
              pc = "timer"]_vars

\* C18: the tolerance is ten blocks of the configured duration, 120 seconds:
\* the timer run() sets is that much shorter than the time to the window
C18_ToleranceIsTenBlocks ==
    [][(pc = "getBlock" /\ pc' = "timer" /\ windowStart' # NaN) =>
          /\ TOLERANCE_THRESHOLD = 10 * BLOCK_DURATION
          /\ time' = (windowStart' - chainBlock) * BLOCK_DURATION - 120 * 1000]_vars

(***************************************************************************)
(* Properties of the schedule of a cycle                                   *)
(***************************************************************************)
\* the handler of the block subscription is given a block
BlockHandled == pc = "stream" /\ lastDelivered' # lastDelivered /\ pc' # "exited"

\* C22: the window of a cycle is frozen: from the timer to the end of the
\* subscription no step, the handlers of the sequencer's events included,
\* changes windowStart or windowEnd; the handler closes the window and starts
\* attempts by these values, not by the watched variables; and the next
\* cycle computes its window from the watched variables as they are then
C22_ScheduleFrozen ==
    [][/\ (pc \in {"timer", "stream"} /\ pc' \in {"timer", "stream"}) =>
              windowStart' = windowStart /\ windowEnd' = windowEnd
       /\ (BlockHandled /\ windowStart # NaN) =>
              /\ pc' # "stream" <=> chainBlock >= windowEnd
              /\ Calls(attempts') # Calls(attempts) =>
                     chainBlock >= windowStart /\ chainBlock < windowEnd
       /\ (pc = "getBlock" /\ pc' = "timer" /\ windowStart' # NaN) =>
              windowEnd' = windowStart' + blocksInWindow]_vars

\* the window [0, 1) was scheduled, the AddNetwork event of a network of
\* window size 2 was handled during the subscription, and block 1 closed the
\* window as scheduled
C22_Witness ==
    /\ pc = "getBlock"
    /\ windowStart = 0
    /\ windowEnd = 1
    /\ blocksInWindow = 2
    /\ chainBlock = 1
    /\ events = <<>>

(***************************************************************************)
(* Properties of fetchAndUpdateNetworksData                                *)
(***************************************************************************)
\* the indexes of the whitelist that hold the Keep3r network
Keep3rIndexes == {i \in 0..(Len(chainNetworks) - 1) : chainNetworks[i + 1].tag = KEEP3R_NETWORK_TAG}
\* the smallest of them, or -1 when there is none
FirstKeep3rIndex ==
    IF Keep3rIndexes = {} THEN -1
    ELSE CHOOSE i \in Keep3rIndexes : \A k \in Keep3rIndexes : i <= k

\* C23: when fetchAndUpdateNetworksData has run to its end on a sequencer
\* that did not change meanwhile, the amount of networks is the sequencer's
\* numNetworks and the position is the smallest index that holds the Keep3r
\* network, or -1 when no index does (an empty whitelist included)
C23_RecomputationIsExact ==
    (pc \in {"getBlock", "halted", "resynced"} /\ fetches = EmptyBag) =>
        /\ networksAmount = Len(chainNetworks)
        /\ keep3rSequencerPosition = FirstKeep3rIndex

\* the first recomputation has ended on a whitelist that holds the Keep3r
\* network second, whatever the position was before
C23_Witness ==
    /\ pc = "getBlock"
    /\ fetches = EmptyBag
    /\ Len(snapshots) = 0
    /\ Len(chainNetworks) = 2
    /\ chainNetworks[2].tag = KEEP3R_NETWORK_TAG
    /\ keep3rSequencerPosition = 1
    /\ networksAmount = 2

\* run() calls calculateNextMasterWindow with the watched variables
WindowComputed == pc = "getBlock" /\ pc' \in {"timer", "stream"}

\* C25: whenever run() calls calculateNextMasterWindow, the watched variables
\* it passes satisfy the function's preconditions: a window of one block at
\* least, one network at least, and a position from 0 to below the amount of
\* networks
C25_PreconditionsAtCall ==
    [][WindowComputed =>
          /\ blocksInWindow >= 1
          /\ networksAmount >= 1
          /\ keep3rSequencerPosition >= 0
          /\ keep3rSequencerPosition < networksAmount]_vars

(***************************************************************************)
(* Properties of the guard of tryToWorkJob                                 *)
(***************************************************************************)
\* C26: an attempt on a job at work is skipped and not queued: the block
\* inside the window that finds the job's flag up calls neither workable()
\* nor the Broadcast for it, logs the skip and leaves every flag as it is;
\* and an attempt only ever starts in the handler of a block, for that block
C26_BusyJobSkippedNotQueued ==
    [][/\ InWindowBlockHandled =>
              /\ \A j \in jobs : jobWorkInProgress[j] =>
                     /\ [job |-> j, block |-> chainBlock] \notin Calls(attempts') \ Calls(attempts)
                     /\ [line |-> "Work in progress for job", job |-> j] \in console'
              /\ jobWorkInProgress' = jobWorkInProgress
       /\ \A c \in Calls(attempts') \ Calls(attempts) :
              BlockHandled /\ c.block = chainBlock]_vars

\* jobA, attempted at block 0, is at work; block 1 of the window was handled
\* and jobA skipped: no attempt of block 1 exists
C26_Witness ==
    /\ pc = "stream"
    /\ lastDelivered = 1
    /\ jobs = {"jobA"}
    /\ jobWorkInProgress["jobA"]
    /\ attempts = {[job |-> "jobA", block |-> 0, pc |-> "try"]}
    /\ console = {[line |-> "Work in progress for job", job |-> "jobA"]}

\* C24: fetchAndUpdateNetworksData invocations that run at once are safe:
\* when every whitelist event has been handled and every invocation has
\* ended, the amount of networks and the position are the sequencer's
C24_ConcurrentRecomputationsSafe ==
    Settled =>
        /\ networksAmount = Len(chainNetworks)
        /\ keep3rSequencerPosition = FirstKeep3rIndex

(***************************************************************************)
(* Properties of successive cycles (SpecCycle)                             *)
(***************************************************************************)
\* the blocks of one whole turn of the networks
FullWindow == blocksInWindow * networksAmount

\* C21: when run() is called again at the close of the window that started
\* at windowStart, and the block it reads is at or past the window's end and
\* no more than a full turn past windowStart, the window it computes starts
\* at windowStart plus one full turn (the watched variables being unchanged)
C21_NextWindowOneCycleAhead ==
    [][(/\ WindowComputed
        /\ windowStart \notin {Undefined, NaN}
        /\ chainBlock >= windowEnd
        /\ chainBlock <= windowStart + FullWindow)
          => windowStart' = windowStart + FullWindow]_vars

\* second of two networks, windows of two blocks: the window [2, 4) was
\* closed by block 4, and run(), which read block 5, scheduled [6, 8)
C21_Witness ==
    /\ pc = "timer"
    /\ keep3rSequencerPosition = 1
    /\ blocksInWindow = 2
    /\ networksAmount = 2
    /\ [number |-> 4, outcome |-> "Window finished!"] \in handled
    /\ chainBlock = 5
    /\ windowStart = 6
    /\ windowEnd = 8

\* the block is in one of the windows of the Keep3r network
InOwnWindow(number) ==
    (number - keep3rSequencerPosition * blocksInWindow) % FullWindow < blocksInWindow

\* C27: no block of a window of the Keep3r network that the handler was
\* given is lost to the close of a window: when the block that closed the
\* window is itself in a window of the network (as every block is when the
\* network is the only one), tryToWorkJob was called for the jobs at that
\* block by the time the handler is given a later block
C27_NoOwnBlockLost ==
    \A h \in handled :
        (/\ h.outcome = "Window finished!"
         /\ InOwnWindow(h.number)
         /\ \E g \in handled : g.number > h.number)
            => [number |-> h.number, outcome |-> "tryToWorkJob"] \in handled

====
